---- MODULE Spec2Model ----
(***************************************************************************)
(* Contextual Memory Graph System (contextual_memory_mvp.py).              *)
(*                                                                         *)
(* The three SQLite tables are sequences of rows in rowid order (INSERT OR *)
(* REPLACE deletes the row with the same primary key and appends the new   *)
(* one).  Texts are strings; lower(), strip(), split() and LIKE are        *)
(* computed character by character.  Real numbers are exact: importance   *)
(* values are held in thousandths, scores as fractions.  md5(...)[:12] is  *)
(* an injective tag on its argument (digest collisions are not modelled).  *)
(* time.time() may return the same reading twice.  The calls of           *)
(* weave_memory that threads run on the shared connection are interleaved *)
(* statement by statement.                                                 *)
(***************************************************************************)
EXTENDS Integers, Sequences, FiniteSets, TLC

VARIABLES
    entities,       \* table entities, rows in rowid order
    relationships,  \* table relationships, rows in rowid order
    memories,       \* table memories, rows in rowid order
    clock,          \* the last reading of time.time()
    weaves,         \* history: number of weave_memory calls made
    mentions,       \* history: lower-cased name -> number of extracted mentions
    result,         \* the last call and what it returned
    calls           \* thread -> its weave_memory call in progress

vars == <<entities, relationships, memories, clock, weaves, mentions, result,
          calls>>

-----------------------------------------------------------------------------
(* Bounds of the model *)

MaxWeaves == 2
MaxClock == 2
MaxLimit == 2

-----------------------------------------------------------------------------
(* Strings *)

UpperCase == "ABCDEFGHIJKLMNOPQRSTUVWXYZ"
LowerCase == "abcdefghijklmnopqrstuvwxyz"
WhiteSpace == {" ", "\t", "\n", "\r"}

Min(a, b) == IF a <= b THEN a ELSE b
Max(a, b) == IF a >= b THEN a ELSE b

CharAt(s, i) == SubSeq(s, i, i)

UpperChars == {CharAt(UpperCase, i) : i \in 1..26}

\* str.lower() on one character
LowerChar(c) ==
    IF c \in UpperChars
    THEN CharAt(LowerCase, CHOOSE i \in 1..26 : CharAt(UpperCase, i) = c)
    ELSE c

RECURSIVE LowerRange(_, _, _)
\* the lower-cased characters lo..hi of s
LowerRange(s, lo, hi) ==
    IF lo > hi THEN ""
    ELSE IF lo = hi THEN LowerChar(CharAt(s, lo))
    ELSE LET mid == (lo + hi) \div 2
         IN LowerRange(s, lo, mid) \o LowerRange(s, mid + 1, hi)

RECURSIVE LStrip(_)
LStrip(s) ==
    IF Len(s) > 0 /\ CharAt(s, 1) \in WhiteSpace
    THEN LStrip(SubSeq(s, 2, Len(s)))
    ELSE s

RECURSIVE RStrip(_)
RStrip(s) ==
    IF Len(s) > 0 /\ CharAt(s, Len(s)) \in WhiteSpace
    THEN RStrip(SubSeq(s, 1, Len(s) - 1))
    ELSE s

\* str.strip()
Strip(s) == RStrip(LStrip(s))

\* text[start:end] for 0 <= start <= end <= len(text)
Slice(text, start, end) == SubSeq(text, start + 1, end)

RECURSIVE LikeMatch(_, _)
\* SQLite: s LIKE p, with % any run of characters, _ any one character,
\* letters compared without regard to case
LikeMatch(p, s) ==
    IF Len(p) = 0 THEN Len(s) = 0
    ELSE IF CharAt(p, 1) = "%"
         THEN \/ LikeMatch(SubSeq(p, 2, Len(p)), s)
              \/ Len(s) > 0 /\ LikeMatch(p, SubSeq(s, 2, Len(s)))
         ELSE /\ Len(s) > 0
              /\ \/ CharAt(p, 1) = "_"
                 \/ LowerChar(CharAt(p, 1)) = LowerChar(CharAt(s, 1))
              /\ LikeMatch(SubSeq(p, 2, Len(p)), SubSeq(s, 2, Len(s)))

-----------------------------------------------------------------------------
(* The texts of the model *)

TextJohn == "John works at Google."
TextJohnLower == "john works at google"
TextAnn == "Ann uses AI"
TextPlain == "hello"
TextML == "Machine Learning machine learning"
TextLong == "Google Google pad_pad_pad_pad_pad_pad_pad_pad_pad_pad_pad_pad_pad_pad_pad_pad_pad_pad_pad_pad_pad_pad_pad_pad_pad_pad_pad_pad_pad_pad_pad_pad_pad_pad_pad_pad_pad_pad_pad_pad_pad_pad_pad_pad_pad_pad_pad"

QueryNoOverlap == "zzz_no_overlap_query"
QueryJohn == "John"
QueryWhere == "Where is Google located?"

Contents == {TextJohn, TextJohnLower, TextAnn, TextPlain, TextLong, TextML}
Queries == {QueryNoOverlap, QueryJohn, QueryWhere}
NetworkNames == {"John", "Jon", "Joh", "J_hn", "%", "Nonexistent", "An", "AI"}

-----------------------------------------------------------------------------
(* NLPProcessor *)

EM(type, start, end) == [type |-> type, start |-> start, end |-> end]
RM(type, start, end, s1, e1, s2, e2) ==
    [type |-> type, start |-> start, end |-> end,
     s1 |-> s1, e1 |-> e1, s2 |-> s2, e2 |-> e2]

\* The matches re.finditer finds on the texts of the model, pattern by
\* pattern in the order of enhanced_patterns: (type, match.start(), match.end())
EntityMatches(text) ==
    CASE text = TextJohn ->
           << EM("PERSON", 0, 4), EM("PERSON", 0, 10), EM("PERSON", 11, 20),
              EM("ORGANIZATION", 14, 20) >>
      [] text = TextJohnLower ->
           << EM("PERSON", 0, 4), EM("PERSON", 0, 10), EM("PERSON", 11, 20),
              EM("ORGANIZATION", 14, 20) >>
      [] text = TextAnn ->
           << EM("PERSON", 0, 8), EM("TECH", 9, 11) >>
      [] text = TextML ->
           << EM("PERSON", 0, 16), EM("PERSON", 17, 33), EM("TECH", 0, 16),
              EM("TECH", 17, 33) >>
      [] text = TextLong ->
           << EM("PERSON", 0, 13), EM("ORGANIZATION", 0, 6),
              EM("ORGANIZATION", 7, 13) >>
      [] text = QueryWhere ->
           << EM("PERSON", 0, 8), EM("PERSON", 9, 23),
              EM("ORGANIZATION", 9, 15) >>
      [] text \in {TextPlain, QueryNoOverlap, QueryJohn} -> << >>

\* The matches of enhanced_relations on the texts of the model:
\* (type, match.start(), match.end(), and the spans of groups 1 and 2)
RelationMatches(text) ==
    CASE text = TextJohn -> << RM("WORKS_AT", 0, 20, 0, 4, 14, 20) >>
      [] text = TextJohnLower -> << RM("WORKS_AT", 0, 20, 0, 4, 14, 20) >>
      [] text = TextAnn -> << RM("USES", 0, 11, 0, 3, 9, 11) >>
      [] text \in {TextPlain, TextLong, TextML, QueryNoOverlap, QueryJohn,
                   QueryWhere} -> << >>

\* extract_entities: (name, type, context) per match
ExtractEntitiesOf(text) ==
    [i \in 1..Len(EntityMatches(text)) |->
        LET m == EntityMatches(text)[i]
        IN [name |-> Strip(Slice(text, m.start, m.end)),
            type |-> m.type,
            context |-> Strip(Slice(text, Max(0, m.start - 30),
                                          Min(Len(text), m.end + 30)))]]

\* extract_relationships: (source, target, relation_type, context) per match
ExtractRelationshipsOf(text) ==
    [i \in 1..Len(RelationMatches(text)) |->
        LET m == RelationMatches(text)[i]
        IN [source |-> Strip(Slice(text, m.s1, m.e1)),
            target |-> Strip(Slice(text, m.s2, m.e2)),
            relation_type |-> m.type,
            context |-> Strip(Slice(text, Max(0, m.start - 20),
                                          Min(Len(text), m.end + 20)))]]

\* The functions of a text are evaluated once per text of the model
Texts == Contents \cup Queries
EntityTable == [text \in Texts |-> ExtractEntitiesOf(text)]
RelationTable == [text \in Texts |-> ExtractRelationshipsOf(text)]
extract_entities(text) == EntityTable[text]
extract_relationships(text) == RelationTable[text]

Names ==
    NetworkNames
    \cup UNION {{EntityTable[t][i].name : i \in 1..Len(EntityTable[t])} : t \in Texts}
    \cup UNION {{RelationTable[t][i].source : i \in 1..Len(RelationTable[t])} : t \in Texts}
    \cup UNION {{RelationTable[t][i].target : i \in 1..Len(RelationTable[t])} : t \in Texts}
LowerTable == [s \in Texts \cup Names |-> LowerRange(s, 1, Len(s))]

\* str.lower()
Lower(s) == IF s \in DOMAIN LowerTable THEN LowerTable[s] ELSE LowerRange(s, 1, Len(s))

\* str.split(): the maximal runs of characters that are not whitespace
Split(s) ==
    LET word(i) == CharAt(s, i) \notin WhiteSpace
        starts == {i \in 1..Len(s) : word(i) /\ (i = 1 \/ ~word(i - 1))}
        stop(i) == CHOOSE j \in i..Len(s) :
                       /\ \A k \in i..j : word(k)
                       /\ j = Len(s) \/ ~word(j + 1)
    IN {SubSeq(s, i, stop(i)) : i \in starts}

WordTable == [text \in Texts |-> Split(Lower(text))]

\* set(text.lower().split())
WordSet(text) == WordTable[text]

\* calculate_text_similarity, as the fraction num/den
calculate_text_similarity(text1, text2) ==
    LET words1 == WordSet(text1)
        words2 == WordSet(text2)
    IN IF words1 = {} \/ words2 = {}
       THEN [num |-> 0, den |-> 1]
       ELSE [num |-> Cardinality(words1 \cap words2),
             den |-> Cardinality(words1 \cup words2)]

-----------------------------------------------------------------------------
(* MobileGraphStorage *)

\* INSERT OR REPLACE: the row with the same primary key is deleted and the
\* new row is appended with a fresh rowid
InsertOrReplace(table, row) ==
    Append(SelectSeq(table, LAMBDA r : r.id # row.id), row)

\* store_entity
store_entity(table, entity) == InsertOrReplace(table, entity)

\* get_entity: << >> for None, << row >> for the row found
get_entity(table, entity_id) ==
    SelectSeq(table, LAMBDA r : r.id = entity_id)

-----------------------------------------------------------------------------
(* ContextWeaver *)

InitialImportanceScore == 500    \* importance_score=0.5, in thousandths
ImportanceBoost == 100           \* importance_score += 0.1
InitialStrength == 700           \* strength=0.7

\* _generate_id: md5(content)[:12]
GenerateId(content) == "md5:" \o content

\* mutant: the id is taken from the name as written
EntityIdCaseSensitive(entity_name) == GenerateId(entity_name)

\* the id weave_memory gives the entity of a name
EntityId(entity_name) == GenerateId(Lower(entity_name))

\* mutant: the re-mention does not count the access
TouchEntityNoCount(existing_entity, current_time) ==
    [existing_entity EXCEPT !.last_accessed = current_time,
                            !.importance_score = @ + ImportanceBoost]

\* mutant: the re-mention lowers the importance
TouchEntityDecay(existing_entity, current_time) ==
    [existing_entity EXCEPT !.last_accessed = current_time,
                            !.access_count = @ + 1,
                            !.importance_score = @ - ImportanceBoost]

\* mutant: the re-mention stamps the record as created now
TouchEntityRecreated(existing_entity, current_time) ==
    [existing_entity EXCEPT !.created_at = current_time,
                            !.last_accessed = current_time,
                            !.access_count = @ + 1,
                            !.importance_score = @ + ImportanceBoost]

\* the existing-entity branch of weave_memory
TouchEntity(existing_entity, current_time) ==
    [existing_entity EXCEPT !.last_accessed = current_time,
                            !.access_count = @ + 1,
                            !.importance_score = @ + ImportanceBoost]

\* the new-entity branch of weave_memory
NewEntity(cand, current_time) ==
    [id |-> EntityId(cand.name),
     name |-> cand.name,
     type |-> cand.type,
     properties |-> [contexts |-> << cand.context >>],
     created_at |-> current_time,
     last_accessed |-> current_time,
     access_count |-> 1,
     importance_score |-> InitialImportanceScore]

\* one turn of the entity loop of weave_memory
UpsertEntity(table, cand, current_time) ==
    LET existing_entity == get_entity(table, EntityId(cand.name))
    IN IF existing_entity # << >>
       THEN store_entity(table, TouchEntity(existing_entity[1], current_time))
       ELSE store_entity(table, NewEntity(cand, current_time))

RECURSIVE ProcessEntities(_, _, _, _)
\* the entity loop of weave_memory from candidate i on
ProcessEntities(table, cands, i, current_time) ==
    IF i > Len(cands) THEN table
    ELSE ProcessEntities(UpsertEntity(table, cands[i], current_time),
                         cands, i + 1, current_time)

\* mutant: an id is collected once, at its first candidate
EntityObjectsOnce(cands) ==
    LET first == {i \in 1..Len(cands) :
                     \A j \in 1..(i - 1) : EntityId(cands[j].name) # EntityId(cands[i].name)}
        pick(k) == CHOOSE i \in first : Cardinality({j \in first : j < i}) = k - 1
    IN [k \in 1..Cardinality(first) |-> EntityId(cands[pick(k)].name)]

\* entity_objects
EntityObjects(cands) == [i \in 1..Len(cands) |-> EntityId(cands[i].name)]

\* the id weave_memory gives a relationship candidate
RelationshipId(cand) ==
    GenerateId(EntityId(cand.source) \o "_" \o EntityId(cand.target)
               \o "_" \o cand.relation_type)

\* the Relationship built in the relationship loop of weave_memory
NewRelationship(cand, current_time) ==
    [id |-> RelationshipId(cand),
     source_id |-> EntityId(cand.source),
     target_id |-> EntityId(cand.target),
     relation_type |-> cand.relation_type,
     strength |-> InitialStrength,
     context |-> cand.context,
     created_at |-> current_time,
     last_reinforced |-> current_time]

\* mutant: INSERT without OR REPLACE, the duplicate key error swallowed
store_relationshipInsertOnly(table, relationship) ==
    IF \E i \in 1..Len(table) : table[i].id = relationship.id
    THEN table
    ELSE Append(table, relationship)

\* _store_relationship
store_relationship(table, relationship) == InsertOrReplace(table, relationship)

RECURSIVE ProcessRelationships(_, _, _, _)
\* the relationship loop of weave_memory from candidate i on
ProcessRelationships(table, cands, i, current_time) ==
    IF i > Len(cands) THEN table
    ELSE ProcessRelationships(
             store_relationship(table, NewRelationship(cands[i], current_time)),
             cands, i + 1, current_time)

\* relationship_objects
RelationshipObjects(cands) == [i \in 1..Len(cands) |-> RelationshipId(cands[i])]

\* mutant: the length boost is not capped
calculate_memory_importanceUncapped(content, entity_objects) ==
    500 + Min(Len(entity_objects) * 100, 300) + Len(content)

\* mutant: an entity id collected twice is counted once
calculate_memory_importanceDistinct(content, entity_objects) ==
    500 + Min(Cardinality({entity_objects[i] : i \in 1..Len(entity_objects)}) * 100, 300)
        + Min(Len(content), 200)

\* _calculate_memory_importance, in thousandths
calculate_memory_importance(content, entity_objects) ==
    LET base_score == 500
        entity_boost == Min(Len(entity_objects) * 100, 300)
        length_boost == Min(Len(content), 200)
    IN base_score + entity_boost + length_boost

\* the Memory weave_memory builds
NewMemory(content, context_tags, current_time) ==
    LET entity_objects == EntityObjects(extract_entities(content))
    IN [id |-> GenerateId(content \o ToString(current_time)),
        content |-> content,
        entities |-> entity_objects,
        relationships |-> RelationshipObjects(extract_relationships(content)),
        timestamp |-> current_time,
        context_tags |-> context_tags,
        importance |-> calculate_memory_importance(content, entity_objects)]

\* _store_memory
store_memory(table, memory) == InsertOrReplace(table, memory)

\* history: the mentions of each lower-cased name after one more extraction
CountMentions(old, cands) ==
    LET new == {Lower(cands[i].name) : i \in 1..Len(cands)}
        before(n) == IF n \in DOMAIN old THEN old[n] ELSE 0
    IN [n \in DOMAIN old \cup new |->
           before(n) + Cardinality({i \in 1..Len(cands) : Lower(cands[i].name) = n})]

\* the tags the demonstration gives its i-th memory
DemoTags == << "demo_tag_" \o ToString(weaves + 1) >>

\* time.time(): a reading not before the last one
TimeReadings == {t \in {clock, clock + 1} : t <= MaxClock}

\* weave_memory(content, context_tags)
Weave(content, context_tags, current_time) ==
    /\ weaves < MaxWeaves
    /\ LET memory == NewMemory(content, context_tags, current_time)
       IN /\ entities' = ProcessEntities(entities, extract_entities(content), 1,
                                         current_time)
          /\ relationships' = ProcessRelationships(relationships,
                                  extract_relationships(content), 1, current_time)
          /\ memories' = store_memory(memories, memory)
          /\ result' = [op |-> "weave", value |-> memory]
    /\ clock' = current_time
    /\ weaves' = weaves + 1
    /\ UNCHANGED calls
    /\ mentions' = CountMentions(mentions, extract_entities(content))

-----------------------------------------------------------------------------
(* MemoryRetriever *)

\* ORDER BY importance DESC, timestamp DESC
MemoryBefore(a, b) ==
    \/ a.importance > b.importance
    \/ a.importance = b.importance /\ a.timestamp > b.timestamp

RECURSIVE InsertMemory(_, _)
\* m put into the ordered rows, behind the rows it does not precede
InsertMemory(rows, m) ==
    IF rows = << >> THEN << m >>
    ELSE IF MemoryBefore(m, rows[1]) THEN << m >> \o rows
         ELSE << rows[1] >> \o InsertMemory(Tail(rows), m)

RECURSIVE OrderMemories(_, _)
\* SELECT ... FROM memories ORDER BY importance DESC, timestamp DESC
\* (rows that tie in both columns come in rowid order)
OrderMemories(table, n) ==
    IF n = 0 THEN << >>
    ELSE InsertMemory(OrderMemories(table, n - 1), table[n])

\* mutant: the boost is given only for an entity the query and the memory share
TotalScoreShared(query, memory_row) ==
    LET content_similarity == calculate_text_similarity(query, memory_row.content)
        query_entities == {EntityId(extract_entities(query)[i].name) :
                               i \in 1..Len(extract_entities(query))}
        memory_entities == {memory_row.entities[i] : i \in 1..Len(memory_row.entities)}
        entity_boost == IF query_entities \cap memory_entities # {}
                        THEN 2000 ELSE 0
    IN [num |-> content_similarity.num * 10000
                + (entity_boost + memory_row.importance) * content_similarity.den,
        den |-> content_similarity.den]

\* total_score = content_similarity + entity_boost + importance * 0.1,
\* in ten-thousandths, as the fraction num/den
TotalScore(query, memory_row) ==
    LET content_similarity == calculate_text_similarity(query, memory_row.content)
        query_entities == extract_entities(query)
        memory_entities == memory_row.entities
        entity_boost == IF query_entities # << >> /\ memory_entities # << >>
                        THEN 2000 ELSE 0       \* 0.2
    IN [num |-> content_similarity.num * 10000
                + (entity_boost + memory_row.importance) * content_similarity.den,
        den |-> content_similarity.den]

\* mutant: total_score >= 0.1
AboveThresholdInclusive(score) == score.num >= 1000 * score.den

\* total_score > 0.1
AboveThreshold(score) == score.num > 1000 * score.den

ScoreGreater(a, b) == a.num * b.den > b.num * a.den

\* the dict appended to scored_memories
ScoredMemory(query, memory_row) ==
    [id |-> memory_row.id,
     content |-> memory_row.content,
     score |-> TotalScore(query, memory_row),
     timestamp |-> memory_row.timestamp,
     importance |-> memory_row.importance]

\* the scoring loop of find_related_memories
ScoredMemories(query, rows) ==
    LET all == [i \in 1..Len(rows) |-> ScoredMemory(query, rows[i])]
    IN SelectSeq(all, LAMBDA sm : AboveThreshold(sm.score))

RECURSIVE InsertScored(_, _)
InsertScored(sorted, sm) ==
    IF sorted = << >> THEN << sm >>
    ELSE IF ScoreGreater(sm.score, sorted[1].score) THEN << sm >> \o sorted
         ELSE << sorted[1] >> \o InsertScored(Tail(sorted), sm)

\* mutant: the scored memories are left in scan order
SortByScoreUnsorted(scored, n) == SubSeq(scored, 1, n)

RECURSIVE SortByScore(_, _)
\* scored_memories.sort(key=score, reverse=True): equal scores keep their order
SortByScore(scored, n) ==
    IF n = 0 THEN << >>
    ELSE InsertScored(SortByScore(scored, n - 1), scored[n])

\* seq[:limit]
SliceTo(seq, limit) ==
    IF limit >= 0 THEN SubSeq(seq, 1, Min(limit, Len(seq)))
    ELSE SubSeq(seq, 1, Max(0, Len(seq) + limit))

\* find_related_memories(query, limit)
find_related_memories(query, limit) ==
    LET rows == OrderMemories(memories, Len(memories))
        scored_memories == ScoredMemories(query, rows)
    IN SliceTo(SortByScore(scored_memories, Len(scored_memories)), limit)

\* the row of r.*, e1.name, e2.name
JoinRow(r, e1, e2) ==
    << r.id, r.source_id, r.target_id, r.relation_type, r.strength,
       r.context, r.created_at, r.last_reinforced, e1.name, e2.name >>

RECURSIVE InsertByStrength(_, _)
InsertByStrength(rows, row) ==
    IF rows = << >> THEN << row >>
    ELSE IF row[5] > rows[1][5] THEN << row >> \o rows
         ELSE << rows[1] >> \o InsertByStrength(Tail(rows), row)

RECURSIVE DirectRelationships(_, _)
\* SELECT r.*, e1.name, e2.name FROM relationships r
\* JOIN entities e1 ON r.source_id = e1.id JOIN entities e2 ON r.target_id = e2.id
\* WHERE r.source_id = ? OR r.target_id = ? ORDER BY r.strength DESC,
\* over the first n rows of relationships
DirectRelationships(entity_id, n) ==
    IF n = 0 THEN << >>
    ELSE LET r == relationships[n]
             e1 == get_entity(entities, r.source_id)
             e2 == get_entity(entities, r.target_id)
             rest == DirectRelationships(entity_id, n - 1)
         IN IF /\ r.source_id = entity_id \/ r.target_id = entity_id
               /\ e1 # << >>
               /\ e2 # << >>
            THEN InsertByStrength(rest, JoinRow(r, e1[1], e2[1]))
            ELSE rest

\* rel_data: rel[7], rel[8], rel[3], rel[4], rel[5] of the row
RelData(rel) ==
    [source |-> rel[7 + 1],
     target |-> rel[8 + 1],
     type |-> rel[3 + 1],
     strength |-> rel[4 + 1],
     context |-> rel[5 + 1]]

\* the values network['connected_entities'] collects: rel[7] and rel[8] of
\* every row; a value of column last_reinforced is a float, a name is a str
ConnectedEntities(rows) ==
    {<<"float", rows[i][7 + 1]>> : i \in 1..Len(rows)}
    \cup {<<"str", rows[i][8 + 1]>> : i \in 1..Len(rows)}

\* LOWER(name) LIKE LOWER('%' + entity_name.lower() + '%'), evaluated once
\* per pair of names of the model
LikeTable ==
    [entity_name \in Names |->
        [name \in Names |->
            LikeMatch(Lower("%" \o Lower(entity_name) \o "%"), Lower(name))]]

\* SELECT e.name, e.type FROM entities e WHERE LOWER(e.name) LIKE LOWER(?)
\* with the parameter '%' + entity_name.lower() + '%'
PartialMatches(entity_name) ==
    SelectSeq(entities, LAMBDA e : LikeTable[entity_name][e.name])

\* mutant: no partial matching when there are no direct relationships
get_entity_networkDirectOnly(entity_name) ==
    LET rows == DirectRelationships(GenerateId(Lower(entity_name)),
                                    Len(relationships))
    IN [center_entity |-> entity_name,
        relationships |-> [i \in 1..Len(rows) |-> RelData(rows[i])],
        connected_entities |-> ConnectedEntities(rows)]

RECURSIVE get_entity_network(_)
\* get_entity_network(entity_name)
get_entity_network(entity_name) ==
    LET entity_id == GenerateId(Lower(entity_name))
        rows == DirectRelationships(entity_id, Len(relationships))
        network == [center_entity |-> entity_name,
                    relationships |-> [i \in 1..Len(rows) |-> RelData(rows[i])],
                    connected_entities |-> ConnectedEntities(rows)]
        matches == PartialMatches(entity_name)
    IN IF rows = << >> /\ matches # << >>
          /\ Lower(matches[1].name) # Lower(entity_name)
       THEN get_entity_network(matches[1].name)
       ELSE network

\* get_system_stats
get_system_stats ==
    [entities |-> Len(entities),
     relationships |-> Len(relationships),
     memories |-> Len(memories)]

Limits == (0 - 1)..MaxLimit

\* query_memory / find_related_memories
FindRelated(query, limit) ==
    /\ result' = [op |-> "find_related", query |-> query, limit |-> limit,
                  value |-> find_related_memories(query, limit)]
    /\ UNCHANGED <<entities, relationships, memories, clock, weaves, mentions,
                   calls>>

\* mutant: the lookup counts as an access of the stored entity
EntityNetworkCounted(entity_name) ==
    /\ result' = [op |-> "entity_network", name |-> entity_name,
                  value |-> get_entity_network(entity_name)]
    /\ entities' = [i \in 1..Len(entities) |->
                       IF entities[i].id = GenerateId(Lower(entity_name))
                       THEN [entities[i] EXCEPT !.access_count = @ + 1]
                       ELSE entities[i]]
    /\ UNCHANGED <<relationships, memories, clock, weaves, mentions, calls>>

\* explore_entity / get_entity_network
EntityNetwork(entity_name) ==
    /\ result' = [op |-> "entity_network", name |-> entity_name,
                  value |-> get_entity_network(entity_name)]
    /\ UNCHANGED <<entities, relationships, memories, clock, weaves, mentions,
                   calls>>

\* get_system_stats
Stats ==
    /\ result' = [op |-> "stats", value |-> get_system_stats]
    /\ UNCHANGED <<entities, relationships, memories, clock, weaves, mentions,
                   calls>>

-----------------------------------------------------------------------------

\* the threads that share the connection (check_same_thread=False)
Threads == {1, 2}

\* a thread that is not in weave_memory
Idle == [pc |-> "idle"]

Init ==
    /\ calls = [t \in Threads |-> Idle]
    /\ entities = << >>
    /\ relationships = << >>
    /\ memories = << >>
    /\ clock = 0
    /\ weaves = 0
    /\ mentions = << >>
    /\ result = [op |-> "init", value |-> << >>]

Next ==
    \/ \E content \in Contents, current_time \in TimeReadings :
          Weave(content, DemoTags, current_time)
    \/ \E query \in Queries, limit \in Limits : FindRelated(query, limit)
    \/ \E entity_name \in NetworkNames : EntityNetwork(entity_name)
    \/ Stats

Spec == Init /\ [][Next]_vars

-----------------------------------------------------------------------------
(* Properties *)

EntityRows == {entities[i] : i \in 1..Len(entities)}
RelationshipRows == {relationships[i] : i \in 1..Len(relationships)}
MemoryRows == {memories[i] : i \in 1..Len(memories)}
WovenContents == {m.content : m \in MemoryRows}

\* the stored entities whose lower-cased name is n
EntitiesNamed(n) == {i \in 1..Len(entities) : Lower(entities[i].name) = n}

\* C1: the store holds exactly one Entity per lower-cased name that was
\* mentioned, and none for a name that was not: mentions that differ only in
\* letter case fall on the same record.
C1_OneEntityPerLowerName ==
    /\ \A n \in DOMAIN mentions : Cardinality(EntitiesNamed(n)) = 1
    /\ \A e \in EntityRows : Lower(e.name) \in DOMAIN mentions

\* "John" was mentioned as "John" and as "john"; one record, accessed twice
C1_Witness ==
    /\ {TextJohn, TextJohnLower} \subseteq WovenContents
    /\ Cardinality(EntitiesNamed("john")) = 1
    /\ \E e \in EntityRows : Lower(e.name) = "john" /\ e.access_count = 2

\* C2: access_count is the number of extracted mentions of the lower-cased
\* name so far, and importance_score is 0.5 + 0.1 * (access_count - 1).
C2_AccessCountIsMentions ==
    \A e \in EntityRows :
        /\ Lower(e.name) \in DOMAIN mentions
        /\ e.access_count = mentions[Lower(e.name)]
        /\ e.importance_score = 500 + 100 * (e.access_count - 1)

\* two fragments that each mention John and Google once
C2_Witness ==
    /\ weaves = 2
    /\ \A n \in {"john", "google"} :
          /\ Cardinality(EntitiesNamed(n)) = 1
          /\ \A i \in EntitiesNamed(n) : entities[i].access_count = 2

\* C3: from one state to the next every stored entity is still stored and
\* neither its access_count nor its importance_score is lower.
C3_Reinforcement ==
    [][\A e \in EntityRows :
          \E f \in EntityRows' :
              /\ f.id = e.id
              /\ f.access_count >= e.access_count
              /\ f.importance_score >= e.importance_score]_vars

\* an entity that was re-mentioned, seen by a query afterwards
C3_Witness ==
    /\ result.op \in {"find_related", "entity_network"}
    /\ \E e \in EntityRows : e.access_count > 1 /\ e.importance_score > 500

\* the relationships of one (source, target, relation type) triple
RelationshipsOf(source_id, target_id, relation_type) ==
    {i \in 1..Len(relationships) :
        /\ relationships[i].source_id = source_id
        /\ relationships[i].target_id = target_id
        /\ relationships[i].relation_type = relation_type}

\* C4: at most one Relationship per (source id, target id, relation type),
\* and after a weave the one record of each triple it extracted carries the
\* timestamp of that weave in last_reinforced.
C4_OneRelationshipPerTriple ==
    /\ \A r \in RelationshipRows :
          Cardinality(RelationshipsOf(r.source_id, r.target_id, r.relation_type)) = 1
    /\ result.op = "weave" =>
          LET cands == extract_relationships(result.value.content)
          IN \A k \in 1..Len(cands) :
                LET same == RelationshipsOf("md5:" \o Lower(cands[k].source),
                                            "md5:" \o Lower(cands[k].target),
                                            cands[k].relation_type)
                IN /\ Cardinality(same) = 1
                   /\ \A i \in same :
                         relationships[i].last_reinforced = result.value.timestamp

\* WORKS_AT(john, google) woven at reading 1 and again at reading 2
C4_Witness ==
    /\ result.op = "weave"
    /\ \E m \in MemoryRows : m.content = TextJohn /\ m.timestamp = 1
    /\ result.value.content = TextJohnLower /\ result.value.timestamp = 2
    /\ Len(relationships) = 1
    /\ relationships[1].last_reinforced = 2

\* C5: every weave call adds one Memory, so the store holds as many Memories
\* as weave calls were made.
C5_OneMemoryPerWeave == Len(memories) = weaves

\* sub occurs in s
Contains(sub, s) ==
    \E i \in 1..(Len(s) - Len(sub) + 1) : SubSeq(s, i, i + Len(sub) - 1) = sub

\* the stored entities whose name contains entity_name, letter case aside
EntitiesContaining(entity_name) ==
    {i \in 1..Len(entities) : Contains(Lower(entity_name), Lower(entities[i].name))}

\* the stored relationships an entity id takes part in, both ends stored
Touching(entity_id) ==
    {i \in 1..Len(relationships) :
        /\ relationships[i].source_id = entity_id
           \/ relationships[i].target_id = entity_id
        /\ \E e \in EntityRows : e.id = relationships[i].source_id
        /\ \E e \in EntityRows : e.id = relationships[i].target_id}

\* the network lists the relationships idx, and only them
ListsRelationships(network, idx) ==
    /\ Len(network.relationships) = Cardinality(idx)
    /\ \A i \in idx :
          \E k \in 1..Len(network.relationships) :
              /\ network.relationships[k].type = relationships[i].relation_type
              /\ network.relationships[k].context = relationships[i].context
              /\ network.relationships[k].strength = relationships[i].strength

\* C6 as claimed: entityNetwork("Jon"), when "John" is stored and has
\* relationships, returns the network of "John".
C6_JonResolvesToJohn ==
    ( /\ result.op = "entity_network"
      /\ result.name = "Jon"
      /\ Touching("md5:john") # {} )
    => /\ Lower(result.value.center_entity) = "john"
       /\ ListsRelationships(result.value, Touching("md5:john"))

\* C6 as amended: entityNetwork("Joh"), a name with no relationships of its
\* own that the name of the stored "John" contains, "John" being the first
\* stored entity whose name contains it and having relationships, returns
\* what entityNetwork returns for the stored name of "John": that name as
\* center, and John's relationships.
C6_SubstringResolvesToJohn ==
    ( /\ result.op = "entity_network"
      /\ result.name = "Joh"
      /\ Touching("md5:joh") = {}
      /\ EntitiesContaining("Joh") # {}
      /\ \A i \in EntitiesContaining("Joh") :
            (\A j \in EntitiesContaining("Joh") : i <= j)
            => Lower(entities[i].name) = "john"
      /\ Touching("md5:john") # {} )
    => /\ Lower(result.value.center_entity) = "john"
       /\ \E e \in EntityRows : e.name = result.value.center_entity
       /\ ListsRelationships(result.value, Touching("md5:john"))
       /\ result.value = get_entity_network(result.value.center_entity)

\* "Joh" was resolved to the stored "John", which has a relationship
C6_Witness ==
    /\ result.op = "entity_network"
    /\ result.name = "Joh"
    /\ Touching("md5:john") # {}
    /\ result.value.center_entity = "John"
    /\ Len(result.value.relationships) = 1

\* C7: entityNetwork(name), when name has no direct relationships and no
\* stored entity name contains name, letter case aside, returns the empty
\* network of the name it was given.
C7_EmptyNetworkWithoutMatch ==
    ( /\ result.op = "entity_network"
      /\ Touching("md5:" \o Lower(result.name)) = {}
      /\ EntitiesContaining(result.name) = {} )
    => result.value = [center_entity |-> result.name,
                       relationships |-> << >>,
                       connected_entities |-> {}]

\* C8: every ScoredMemory findRelated returns has a score above 0.1.
C8_RankingFloor ==
    result.op = "find_related" =>
        \A k \in 1..Len(result.value) :
            result.value[k].score.num > 1000 * result.value[k].score.den

\* a query that returned one memory and left another below the floor
C8_Witness ==
    /\ result.op = "find_related"
    /\ Len(result.value) = 1
    /\ Len(memories) = 2
    /\ result.limit = 1
    /\ \E m \in MemoryRows : m.importance = 1000 /\ m.id # result.value[1].id

\* C9: a query from which no entity is extracted and that shares no word
\* with the content of any stored memory gets the empty sequence.
C9_NoOverlapNoResult ==
    ( /\ result.op = "find_related"
      /\ extract_entities(result.query) = << >>
      /\ \A m \in MemoryRows :
            WordSet(result.query) \cap WordSet(m.content) = {} )
    => result.value = << >>

\* the query over two memories, one of them of importance 1.0
C9_Witness ==
    /\ result.op = "find_related"
    /\ result.query = QueryNoOverlap
    /\ result.limit > 0
    /\ Len(memories) = 2
    /\ \E m \in MemoryRows : m.importance = 1000
    /\ result.value = << >>

\* C10: the importance of every Memory is
\* 0.5 + min(0.1 * entityCount, 0.3) + min(contentLength / 1000, 0.2), the
\* entity ids counted with their duplicates, and lies in [0.5, 1.0].
C10_MemoryImportance ==
    \A m \in MemoryRows \cup (IF result.op = "weave" THEN {result.value} ELSE {}) :
        /\ m.importance = 500 + (IF Len(m.entities) < 3 THEN 100 * Len(m.entities) ELSE 300)
                              + (IF Len(m.content) < 200 THEN Len(m.content) ELSE 200)
        /\ Len(m.entities) = Len(extract_entities(m.content))
        /\ m.importance >= 500
        /\ m.importance <= 1000

\* both caps bind, an id is counted twice; and a memory without entities
C10_Witness ==
    /\ \E m \in MemoryRows :
          /\ m.importance = 1000
          /\ Len(m.entities) = 3
          /\ Cardinality({m.entities[i] : i \in 1..3}) = 2
          /\ Len(m.content) > 200
    /\ \E m \in MemoryRows : m.importance = 505 /\ m.entities = << >>

\* the fields a re-mention leaves alone
SameIdentity(a, b) ==
    /\ a.id = b.id
    /\ a.name = b.name
    /\ a.type = b.type
    /\ a.properties = b.properties
    /\ a.created_at = b.created_at

\* the first candidate of cands with the lower-cased name of the id
FirstSighting(cands, id) ==
    {i \in 1..Len(cands) :
        /\ "md5:" \o Lower(cands[i].name) = id
        /\ \A j \in 1..(i - 1) : Lower(cands[j].name) # Lower(cands[i].name)}

\* C11: a weave leaves id, name, type, properties and created_at of every
\* entity it re-mentions as they were, and an entity it creates has the
\* name, type and context of its first candidate in the weave, whatever
\* type or letter case the later candidates of the same name have.
C11_FirstSightingWins ==
    [][result'.op = "weave" =>
         LET cands == extract_entities(result'.value.content)
         IN /\ \A i \in 1..Len(entities) :
                  \E k \in 1..Len(entities') : SameIdentity(entities'[k], entities[i])
            /\ \A k \in 1..Len(entities') :
                  \/ \E i \in 1..Len(entities) : SameIdentity(entities'[k], entities[i])
                  \/ /\ \A i \in 1..Len(entities) : entities[i].id # entities'[k].id
                     /\ \E i \in FirstSighting(cands, entities'[k].id) :
                           /\ entities'[k].name = cands[i].name
                           /\ entities'[k].type = cands[i].type
                           /\ entities'[k].properties = [contexts |-> << cands[i].context >>]
                           /\ entities'[k].created_at = result'.value.timestamp]_vars

\* "Machine Learning", first seen as a PERSON, was mentioned as
\* "machine learning" and as TECH by the weave that created it and again by
\* a later weave
C11_Witness ==
    /\ result.op = "weave"
    /\ result.value.content = TextML
    /\ \E e \in EntityRows :
          /\ e.id = "md5:machine learning"
          /\ e.name = "Machine Learning"
          /\ e.type = "PERSON"
          /\ e.access_count = 8
          /\ e.created_at < e.last_accessed

-----------------------------------------------------------------------------
(* weave_memory over a connection whose statements can fail *)

\* the persistence steps of weave_memory(content), one of which may raise
\* sqlite3.Error: the lookup and the write of entity candidate i, the write
\* of relationship candidate j, the write of the memory
FaultPoints(content) ==
    {<<"none", 0>>, <<"store_memory", 1>>}
    \cup {<<"get_entity", i>> : i \in 1..Len(extract_entities(content))}
    \cup {<<"store_entity", i>> : i \in 1..Len(extract_entities(content))}
    \cup {<<"store_relationship", j>> : j \in 1..Len(extract_relationships(content))}

RECURSIVE ProcessEntitiesFaulty(_, _, _, _, _)
\* the entity loop from candidate i on: get_entity has no handler, so its
\* exception leaves the loop and weave_memory (raised); store_entity catches
\* its exception and returns False, the row is not written
ProcessEntitiesFaulty(table, cands, i, current_time, fault) ==
    IF i > Len(cands) THEN [table |-> table, raised |-> FALSE, seen |-> i - 1]
    ELSE IF fault = <<"get_entity", i>>
         THEN [table |-> table, raised |-> TRUE, seen |-> i - 1]
         ELSE ProcessEntitiesFaulty(
                  IF fault = <<"store_entity", i>> THEN table
                  ELSE UpsertEntity(table, cands[i], current_time),
                  cands, i + 1, current_time, fault)

RECURSIVE ProcessRelationshipsFaulty(_, _, _, _, _)
\* the relationship loop from candidate i on: _store_relationship catches
\* its exception, the row is not written
ProcessRelationshipsFaulty(table, cands, i, current_time, fault) ==
    IF i > Len(cands) THEN table
    ELSE ProcessRelationshipsFaulty(
             IF fault = <<"store_relationship", i>> THEN table
             ELSE store_relationship(table, NewRelationship(cands[i], current_time)),
             cands, i + 1, current_time, fault)

\* weave_memory(content, context_tags) with the step fault failing
WeaveFaulty(content, context_tags, current_time, fault) ==
    /\ weaves < MaxWeaves
    /\ LET cands == extract_entities(content)
           done == ProcessEntitiesFaulty(entities, cands, 1, current_time, fault)
           memory == NewMemory(content, context_tags, current_time)
       IN /\ entities' = done.table
          /\ mentions' = CountMentions(mentions, SubSeq(cands, 1, done.seen))
          /\ IF done.raised
             THEN /\ result' = [op |-> "weave_raised", value |-> << >>]
                  /\ UNCHANGED <<relationships, memories>>
             ELSE /\ relationships' = ProcessRelationshipsFaulty(relationships,
                                          extract_relationships(content), 1,
                                          current_time, fault)
                  /\ memories' = IF fault = <<"store_memory", 1>> THEN memories
                                 ELSE store_memory(memories, memory)
                  /\ result' = [op |-> "weave", value |-> memory]
    /\ clock' = current_time
    /\ weaves' = weaves + 1
    /\ UNCHANGED calls

FaultNext ==
    \/ \E content \in Contents, current_time \in TimeReadings :
          \E fault \in FaultPoints(content) :
              WeaveFaulty(content, DemoTags, current_time, fault)
    \/ Stats

FaultSpec == Init /\ [][FaultNext]_vars

\* C12: whichever single persistence step of a weave fails, the call
\* completes and returns the Memory built from the content.
C12_WeaveReturnsMemoryOnFailure ==
    [][weaves' = weaves + 1 =>
          /\ result'.op = "weave"
          /\ result'.value.content \in Contents
          /\ result'.value.timestamp = clock']_vars

-----------------------------------------------------------------------------
(* the chain of calls of get_entity_network *)

\* mutant: the first match is followed even when it is the name itself
FallbackNameAlways(entity_name) ==
    LET matches == PartialMatches(entity_name)
    IN IF DirectRelationships(GenerateId(Lower(entity_name)),
                              Len(relationships)) = << >>
          /\ matches # << >>
       THEN << matches[1].name >>
       ELSE << >>

\* the name get_entity_network(entity_name) calls itself with: << >> when it
\* returns its own network
FallbackName(entity_name) ==
    LET matches == PartialMatches(entity_name)
    IN IF DirectRelationships(GenerateId(Lower(entity_name)),
                              Len(relationships)) = << >>
          /\ matches # << >>
          /\ Lower(matches[1].name) # Lower(entity_name)
       THEN << matches[1].name >>
       ELSE << >>

RECURSIVE NetworkCalls(_, _)
\* the names of the first calls of get_entity_network(entity_name), the
\* call of the caller included, at most fuel of them
NetworkCalls(entity_name, fuel) ==
    IF fuel = 0 THEN << >>
    ELSE << entity_name >> \o
         (IF FallbackName(entity_name) = << >> THEN << >>
          ELSE NetworkCalls(FallbackName(entity_name)[1], fuel - 1))

\* C13: entityNetwork terminates for every name: the chain of its recursive
\* calls visits no name twice, makes at most one call per stored entity
\* after the first, and ends in a call that returns its own network, the
\* one the caller gets.
C13_NetworkTerminates ==
    \A entity_name \in NetworkNames :
        LET chain == NetworkCalls(entity_name, Len(entities) + 2)
            last == chain[Len(chain)]
        IN /\ Len(chain) <= Len(entities) + 1
           /\ FallbackName(last) = << >>
           /\ \A i, j \in 1..Len(chain) : i # j => Lower(chain[i]) # Lower(chain[j])
           /\ get_entity_network(entity_name).center_entity = last

\* "An" was resolved to "Ann uses", an entity without relationships whose
\* own name is again found by the substring search
C13_Witness ==
    /\ result.op = "entity_network"
    /\ result.name = "An"
    /\ NetworkCalls("An", Len(entities) + 2) = << "An", "Ann uses" >>
    /\ result.value.center_entity = "Ann uses"
    /\ result.value.relationships = << >>
    /\ PartialMatches("Ann uses") # << >>

-----------------------------------------------------------------------------

\* the stored relationships whose source_id or target_id is entity_id
StoredTouching(entity_id) ==
    {i \in 1..Len(relationships) :
        \/ relationships[i].source_id = entity_id
        \/ relationships[i].target_id = entity_id}

\* C14: entityNetwork(name), for a name whose entity id is the source_id or
\* the target_id of stored relationships, lists every one of them, whether
\* or not their other endpoint is a stored entity.
C14_NetworkListsEveryRelationship ==
    ( /\ result.op = "entity_network"
      /\ StoredTouching("md5:" \o Lower(result.name)) # {} )
    => /\ result.value.center_entity = result.name
       /\ ListsRelationships(result.value,
                             StoredTouching("md5:" \o Lower(result.name)))

\* C15: a weave that observes again the triple of a stored relationship
\* leaves the strength and the created_at of that relationship as they
\* were.
C15_ReobservationKeepsCreation ==
    [][result'.op = "weave" =>
          \A i \in 1..Len(relationships) :
              \A k \in 1..Len(relationships') :
                  relationships'[k].id = relationships[i].id
                  => /\ relationships'[k].strength = relationships[i].strength
                     /\ relationships'[k].created_at = relationships[i].created_at]_vars

\* C18: the source_id and the target_id of every stored relationship are
\* ids of stored entities.
C18_EndpointsAreStoredEntities ==
    \A r \in RelationshipRows :
        /\ \E e \in EntityRows : e.id = r.source_id
        /\ \E e \in EntityRows : e.id = r.target_id

-----------------------------------------------------------------------------

\* the stored memories whose score for the query is above the floor
AboveFloor(query) ==
    {m \in MemoryRows :
        TotalScore(query, m).num > 1000 * TotalScore(query, m).den}

\* a comes before b in the ranking: by its score or, the scores being
\* equal, by its importance and then its timestamp
RanksBefore(query, a, b) ==
    LET sa == TotalScore(query, a)
        sb == TotalScore(query, b)
    IN \/ sa.num * sb.den > sb.num * sa.den
       \/ /\ sa.num * sb.den = sb.num * sa.den
          /\ \/ a.importance > b.importance
             \/ a.importance = b.importance /\ a.timestamp > b.timestamp

\* C16: for a limit of 0 or more, findRelated returns the first limit
\* memories of the ranking of the memories above the floor: at most limit
\* of them, by score descending, memories of equal score by importance and
\* then by timestamp descending, and no memory left out ranks before a
\* returned one.
C16_TopOfRanking ==
    ( /\ result.op = "find_related"
      /\ result.limit >= 0 )
    => LET R == result.value
           row(k) == CHOOSE m \in MemoryRows : m.id = R[k].id
           returned == {R[k].id : k \in 1..Len(R)}
       IN /\ Len(R) <= result.limit
          /\ Len(R) = Min(result.limit, Cardinality(AboveFloor(result.query)))
          /\ Cardinality(returned) = Len(R)
          /\ \A k \in 1..Len(R) :
                /\ \E m \in AboveFloor(result.query) : m.id = R[k].id
                /\ R[k].score = TotalScore(result.query, row(k))
          /\ \A k \in 1..(Len(R) - 1) :
                /\ R[k].score.num * R[k + 1].score.den
                       >= R[k + 1].score.num * R[k].score.den
                /\ ~RanksBefore(result.query, row(k + 1), row(k))
          /\ \A m \in AboveFloor(result.query) :
                m.id \notin returned
                => \A k \in 1..Len(R) : ~RanksBefore(result.query, m, row(k))

\* two memories of equal score returned under limit 2, the later one first
C16_Witness ==
    /\ result.op = "find_related"
    /\ result.limit = 2
    /\ Len(result.value) = 2
    /\ result.value[1].score = result.value[2].score
    /\ result.value[1].importance = result.value[2].importance
    /\ result.value[1].timestamp > result.value[2].timestamp

-----------------------------------------------------------------------------

\* the score the claim gives memory m for the query, in ten-thousandths,
\* as the fraction num/den
ClaimedScore(query, m) ==
    LET q == WordSet(query)
        c == WordSet(m.content)
        boost == IF Len(extract_entities(query)) >= 1 /\ Len(m.entities) >= 1
                 THEN 2000 ELSE 0
    IN IF q = {} \/ c = {}
       THEN [num |-> boost + m.importance, den |-> 1]
       ELSE [num |-> Cardinality(q \cap c) * 10000
                     + (boost + m.importance) * Cardinality(q \cup c),
             den |-> Cardinality(q \cup c)]

-----------------------------------------------------------------------------

\* C19: the Memory a weave returns lists, in extraction order, the entity
\* id of the lower-cased name of every extracted entity candidate, a name
\* extracted twice twice, and the relationship id of every extracted
\* relationship candidate.
C19_IdsInExtractionOrder ==
    result.op = "weave" =>
        LET ecands == extract_entities(result.value.content)
            rcands == extract_relationships(result.value.content)
        IN /\ Len(result.value.entities) = Len(ecands)
           /\ \A i \in 1..Len(ecands) :
                 result.value.entities[i] = "md5:" \o Lower(ecands[i].name)
           /\ Len(result.value.relationships) = Len(rcands)
           /\ \A i \in 1..Len(rcands) :
                 result.value.relationships[i]
                 = "md5:" \o "md5:" \o Lower(rcands[i].source) \o "_"
                   \o "md5:" \o Lower(rcands[i].target) \o "_" \o rcands[i].relation_type

\* the weave of a content that mentions "Google" twice after "Google
\* Google", and the weave of a content with a relationship
C19_Witness ==
    /\ result.op = "weave"
    /\ result.value.content = TextLong
    /\ result.value.entities = << "md5:google google", "md5:google", "md5:google" >>
    /\ \E m \in MemoryRows :
          /\ m.content = TextJohn
          /\ m.entities = << "md5:john", "md5:john works", "md5:at google", "md5:google" >>
          /\ m.relationships = << "md5:md5:john_md5:google_WORKS_AT" >>

\* C20: findRelated, entityNetwork and stats leave every Entity,
\* Relationship and Memory record as it was.
C20_ReadsLeaveStore ==
    [][result'.op \in {"find_related", "entity_network", "stats"} =>
          /\ entities' = entities
          /\ relationships' = relationships
          /\ memories' = memories]_vars

\* entityNetwork("Joh") went through its fallback into the stored "John",
\* whose record still counts its one mention
C20_Witness ==
    /\ result.op = "entity_network"
    /\ result.name = "Joh"
    /\ Len(result.value.relationships) = 1
    /\ \E e \in EntityRows :
          e.id = "md5:john" /\ e.access_count = 1 /\ e.last_accessed = e.created_at
    /\ Len(memories) = 1

-----------------------------------------------------------------------------
(* weave_memory called by two threads on the shared connection *)

\* the entity candidate the call of thread t is at
Candidate(t) == extract_entities(calls[t].content)[calls[t].i]

\* thread t enters weave_memory: time.time() and extract_entities
Begin(t, content, context_tags, current_time) ==
    /\ calls[t].pc = "idle"
    /\ weaves < MaxWeaves
    /\ calls' = [calls EXCEPT ![t] =
                    [pc |-> IF extract_entities(content) = << >>
                            THEN "finish" ELSE "lookup",
                     content |-> content,
                     context_tags |-> context_tags,
                     current_time |-> current_time,
                     i |-> 1,
                     existing_entity |-> << >>]]
    /\ clock' = current_time
    /\ weaves' = weaves + 1
    /\ mentions' = CountMentions(mentions, extract_entities(content))
    /\ UNCHANGED <<entities, relationships, memories, result>>

\* existing_entity = self.storage.get_entity(entity_id)
Lookup(t) ==
    /\ calls[t].pc = "lookup"
    /\ calls' = [calls EXCEPT ![t].existing_entity =
                                  get_entity(entities, EntityId(Candidate(t).name)),
                              ![t].pc = "write"]
    /\ UNCHANGED <<entities, relationships, memories, clock, weaves, mentions,
                   result>>

\* self.storage.store_entity(...) of the record looked up, or of a new one
Write(t) ==
    /\ calls[t].pc = "write"
    /\ entities' = store_entity(entities,
                       IF calls[t].existing_entity # << >>
                       THEN TouchEntity(calls[t].existing_entity[1],
                                        calls[t].current_time)
                       ELSE NewEntity(Candidate(t), calls[t].current_time))
    /\ calls' = [calls EXCEPT ![t].i = @ + 1,
                              ![t].existing_entity = << >>,
                              ![t].pc = IF calls[t].i < Len(extract_entities(calls[t].content))
                                        THEN "lookup" ELSE "finish"]
    /\ UNCHANGED <<relationships, memories, clock, weaves, mentions, result>>

\* the relationship loop, the memory and the return of weave_memory
Finish(t) ==
    /\ calls[t].pc = "finish"
    /\ LET memory == NewMemory(calls[t].content, calls[t].context_tags,
                               calls[t].current_time)
       IN /\ relationships' = ProcessRelationships(relationships,
                                  extract_relationships(calls[t].content), 1,
                                  calls[t].current_time)
          /\ memories' = store_memory(memories, memory)
          /\ result' = [op |-> "weave", value |-> memory]
    /\ calls' = [calls EXCEPT ![t] = [pc |-> "done"]]
    /\ UNCHANGED <<entities, clock, weaves, mentions>>

ConcurrentNext ==
    \E t \in Threads :
        \/ \E content \in Contents, current_time \in TimeReadings :
              Begin(t, content, DemoTags, current_time)
        \/ Lookup(t)
        \/ Write(t)
        \/ Finish(t)

ConcurrentSpec == Init /\ [][ConcurrentNext]_vars

\* C21: when the weave calls of the two threads have both returned, every
\* mentioned name has one entity record, whose access_count is the number
\* of its mentions in both calls and whose importance_score is
\* 0.5 + 0.1 * (mentions - 1), however the lookups and writes of the two
\* calls were interleaved.
C21_NoLostUpdate ==
    (\A t \in Threads : calls[t].pc = "done")
    => \A n \in DOMAIN mentions :
           /\ Cardinality(EntitiesNamed(n)) = 1
           /\ \A i \in EntitiesNamed(n) :
                 /\ entities[i].access_count = mentions[n]
                 /\ entities[i].importance_score
                    = InitialImportanceScore + ImportanceBoost * (mentions[n] - 1)

====
